---- MODULE Spec2Model ----
(***************************************************************************)
(* Model of utils/stepperMotorControl.py: the ZDT stepper-motor UART       *)
(* command builders, the silence-framed receiver Receive_Data and the      *)
(* position decode of Real_time_location.                                  *)
(*                                                                         *)
(* A Python str is a sequence of one-character strings, a bytearray a      *)
(* sequence of integers 0..255.  Motor_Cur_Pos is kept as the exact        *)
(* numerator of the float over 65536 (pos*360 is below 2^53 and 65536 is a *)
(* power of two, so the float division is exact).                          *)
(***************************************************************************)
EXTENDS Integers, Sequences, FiniteSets, TLC

\* ------------------------------------------------------------------------
\* Bounds of the model
\* ------------------------------------------------------------------------
TickMs == 25        \* granularity of the millisecond clock
MaxNow == 200       \* the clock stops advancing here
MaxUart == 2        \* bytes the UART can hold unread
MaxShort == 2       \* every stream up to this length over ShortBytes is fed
Overrun == 2        \* bytes the longest stream sends beyond the buffer

\* ------------------------------------------------------------------------
\* Program constants
\* ------------------------------------------------------------------------
RxCap == 128        \* rxCmd = bytearray(128), if i < 128
QuietMs == 100      \* ticks_diff(cTime, lTime) > 100
Terminator == 107   \* 0x6B

VARIABLES pc, now, line, uart, rxCmd, lTime, cTime, data, count, pos,
          Motor_Cur_Pos, err, call, cmd

rxvars == <<pc, now, line, uart, rxCmd, lTime, cTime, data, count, pos,
            Motor_Cur_Pos, err>>
vars == <<pc, now, line, uart, rxCmd, lTime, cTime, data, count, pos,
          Motor_Cur_Pos, err, call, cmd>>

\* ------------------------------------------------------------------------
\* Python string helpers used by Receive_Data and Real_time_location
\* ------------------------------------------------------------------------
HexChars == <<"0","1","2","3","4","5","6","7","8","9","a","b","c","d","e","f">>

\* "{:02x}".format(b)
Format02x(b) == <<HexChars[(b \div 16) + 1], HexChars[(b % 16) + 1]>>

\* " ".join(["{:02x}".format(b) for b in rxCmd[:i]])
RECURSIVE JoinHex(_)
JoinHex(bs) ==
    IF bs = <<>> THEN <<>>
    ELSE IF Len(bs) = 1 THEN Format02x(bs[1])
    ELSE Format02x(bs[1]) \o <<" ">> \o JoinHex(Tail(bs))

\* the character set of the argument of strip("00 ")
StripChars == {"0", " "}

RECURSIVE LStrip(_)
LStrip(s) ==
    IF s = <<>> \/ Head(s) \notin StripChars THEN s ELSE LStrip(Tail(s))

RECURSIVE RStrip(_)
RStrip(s) ==
    IF s = <<>> \/ s[Len(s)] \notin StripChars THEN s
    ELSE RStrip(SubSeq(s, 1, Len(s) - 1))

\* hex_data.strip("00 "): removes the characters, not the substring
Strip(s) == RStrip(LStrip(s))

\* if hex_data and hex_data[0] != "0": hex_data = "0" + hex_data
PadLeadingZero(s) ==
    IF s # <<>> /\ s[1] # "0" THEN <<"0">> \o s ELSE s

\* the hex_data that Receive_Data returns for the bytes rxCmd[:i]
Normalize(bs) == PadLeadingZero(Strip(JoinHex(bs)))

\* hex_data.replace(" ", "")
RECURSIVE RemoveSpaces(_)
RemoveSpaces(s) ==
    IF s = <<>> THEN <<>>
    ELSE IF Head(s) = " " THEN RemoveSpaces(Tail(s))
    ELSE <<Head(s)>> \o RemoveSpaces(Tail(s))

\* len(hex_data.replace(" ", "")) // 2
CountOf(s) == Len(RemoveSpaces(s)) \div 2

\* data.split(): the whitespace-separated tokens
RECURSIVE SplitAcc(_, _, _)
SplitAcc(s, cur, acc) ==
    IF s = <<>> THEN (IF cur = <<>> THEN acc ELSE Append(acc, cur))
    ELSE IF Head(s) = " "
         THEN SplitAcc(Tail(s), <<>>, IF cur = <<>> THEN acc ELSE Append(acc, cur))
         ELSE SplitAcc(Tail(s), Append(cur, Head(s)), acc)

Split(s) == SplitAcc(s, <<>>, <<>>)

HexVal(c) == CHOOSE v \in 0..15 : HexChars[v + 1] = c

\* int(tok, 16)
RECURSIVE IntHex(_)
IntHex(tok) ==
    IF tok = <<>> THEN 0
    ELSE IntHex(SubSeq(tok, 1, Len(tok) - 1)) * 16 + HexVal(tok[Len(tok)])

\* "".join(data_hex[3:7]): a slice never raises, it is cut at the end
RECURSIVE Concat(_)
Concat(toks) == IF toks = <<>> THEN <<>> ELSE Head(toks) \o Concat(Tail(toks))

Slice3to7(toks) ==
    IF Len(toks) <= 3 THEN <<>>
    ELSE SubSeq(toks, 4, IF Len(toks) < 7 THEN Len(toks) ELSE 7)

\* bytes.fromhex(s): pairs of hex digits; an odd digit count is a ValueError
RECURSIVE HexPairs(_)
HexPairs(s) ==
    IF Len(s) < 2 THEN <<>>
    ELSE <<HexVal(s[1]) * 16 + HexVal(s[2])>> \o HexPairs(SubSeq(s, 3, Len(s)))

FromHexRaises(s) == Len(s) % 2 = 1

\* struct.unpack(">I", b)[0]: needs exactly 4 bytes, else struct.error
UnpackRaises(b) == Len(b) # 4

UnpackBE32(b) == ((b[1] * 256 + b[2]) * 256 + b[3]) * 256 + b[4]

\* time.ticks_diff(a, b) away from the wrap of the tick counter
ticks_diff(a, b) == a - b

\* Quiet with the two timestamps exchanged
QuietSwapped(c, l) == ticks_diff(l, c) > QuietMs

\* Quiet with the comparison made non-strict
QuietAtThreshold(c, l) == ticks_diff(c, l) >= QuietMs

\* time.ticks_diff(cTime, lTime) > 100
Quiet(c, l) == ticks_diff(c, l) > QuietMs

\* ------------------------------------------------------------------------
\* The byte streams the line delivers (the scripted uart)
\* ------------------------------------------------------------------------
ShortBytes == {0, 1, 16, 54}

ShortStreams == UNION {[1..n -> ShortBytes] : n \in 0..MaxShort}

\* replies to "read position": address 1, function 0x36, sign, 4-byte magnitude
ReplyFrames == {<<1, 54, s, 0, 0, h, l>> : s \in {0, 1}, h \in {0, 28}, l \in {0, 32, 33}}

OtherFrames == { <<2, 54, 0, 0, 0, 28, 33>>, <<1, 55, 0, 0, 0, 28, 33>>,
                 <<0, 1, 54, 0, 0, 0, 28, 33>>, <<1, 54, 0>>,
                 <<1, 54, 0, 0, 0, 28>>, <<1, 2, 3, 4, 5, 6, 7>>,
                 <<1, 2, 3, 4, 0, 6>>, <<16, 2, 3, 4, 5>> }

LongStream == [n \in 1..(RxCap + Overrun) |-> 85]

Streams == ShortStreams \cup ReplyFrames \cup OtherFrames \cup {LongStream}

\* ------------------------------------------------------------------------
\* Real_time_location / Receive_Data
\* ------------------------------------------------------------------------
NoCall == [op |-> "none", args |-> <<>>]
NoCmd == [raised |-> FALSE, bytes |-> <<>>]

RxInitWith(S) ==
    /\ pc = "start"
    /\ now = 0
    /\ line \in S
    /\ uart = <<>>
    /\ rxCmd = <<>>
    /\ lTime = 0
    /\ cTime = 0
    /\ data = <<>>
    /\ count = 0
    /\ pos = 0
    /\ Motor_Cur_Pos = 0
    /\ err = "none"

Init == RxInitWith(Streams) /\ call = NoCall /\ cmd = NoCmd

\* the line delivers its next byte into the UART
Arrive ==
    /\ line # <<>>
    /\ Len(uart) < MaxUart
    /\ uart' = Append(uart, Head(line))
    /\ line' = Tail(line)
    /\ UNCHANGED <<pc, now, rxCmd, lTime, cTime, data, count, pos,
                   Motor_Cur_Pos, err, call, cmd>>

\* time.ticks_ms() advances while the receiver is polling
Tick ==
    /\ pc = "rx"
    /\ now + TickMs <= MaxNow
    /\ now' = now + TickMs
    /\ UNCHANGED <<pc, line, uart, rxCmd, lTime, cTime, data, count, pos,
                   Motor_Cur_Pos, err, call, cmd>>

\* Real_time_location up to the call of Receive_Data, and the first three
\* statements of Receive_Data
Begin ==
    /\ pc = "start"
    /\ pos' = 0
    /\ Motor_Cur_Pos' = 0
    /\ rxCmd' = <<>>
    /\ lTime' = now
    /\ cTime' = now
    /\ pc' = "rx"
    /\ UNCHANGED <<now, line, uart, data, count, err, call, cmd>>

\* one iteration of the while True loop of Receive_Data
RxIter ==
    /\ pc = "rx"
    /\ IF uart # <<>>
       THEN IF Len(rxCmd) < RxCap
            THEN /\ rxCmd' = Append(rxCmd, Head(uart))
                 /\ uart' = Tail(uart)
                 /\ lTime' = now
                 /\ UNCHANGED <<pc, cTime, data, count>>
            ELSE UNCHANGED <<pc, rxCmd, uart, lTime, cTime, data, count>>
       ELSE /\ cTime' = now
            /\ IF Quiet(now, lTime)
               THEN /\ data' = Normalize(rxCmd)
                    /\ count' = CountOf(Normalize(rxCmd))
                    /\ pc' = "decode"
               ELSE UNCHANGED <<pc, data, count>>
            /\ UNCHANGED <<rxCmd, uart, lTime>>
    /\ UNCHANGED <<now, line, pos, Motor_Cur_Pos, err, call, cmd>>

data_hex == Split(data)

\* count > 0 and data and int(data_hex[0], 16) == 0x01, the conjuncts
\* evaluated before data_hex[1] is touched
PrefixGuard == count > 0 /\ data # <<>> /\ IntHex(data_hex[1]) = 1

\* the decode of Real_time_location after Receive_Data has returned
Decode ==
    /\ pc = "decode"
    /\ IF ~PrefixGuard
       THEN /\ pc' = "done"
            /\ UNCHANGED <<pos, Motor_Cur_Pos, err>>
       ELSE IF Len(data_hex) < 2
       THEN /\ pc' = "raised"
            /\ err' = "IndexError"
            /\ UNCHANGED <<pos, Motor_Cur_Pos>>
       ELSE IF IntHex(data_hex[2]) # 54
       THEN /\ pc' = "done"
            /\ UNCHANGED <<pos, Motor_Cur_Pos, err>>
       ELSE IF FromHexRaises(Concat(Slice3to7(data_hex)))
       THEN /\ pc' = "raised"
            /\ err' = "ValueError"
            /\ UNCHANGED <<pos, Motor_Cur_Pos>>
       ELSE IF UnpackRaises(HexPairs(Concat(Slice3to7(data_hex))))
       THEN /\ pc' = "raised"
            /\ err' = "struct.error"
            /\ UNCHANGED <<pos, Motor_Cur_Pos>>
       ELSE LET p == UnpackBE32(HexPairs(Concat(Slice3to7(data_hex)))) IN
            /\ pos' = p
            /\ Motor_Cur_Pos' = IF IntHex(data_hex[3]) # 0 THEN -(p * 360) ELSE p * 360
            /\ pc' = "done"
            /\ UNCHANGED err
    /\ UNCHANGED <<now, line, uart, rxCmd, lTime, cTime, data, count, call, cmd>>

Next == Arrive \/ Tick \/ Begin \/ RxIter \/ Decode

Spec == Init /\ [][Next]_vars

\* ------------------------------------------------------------------------
\* The command builders
\* ------------------------------------------------------------------------
\* A Python int that may exceed 32 bits is the pair hi * 2^16 + lo, lo < 2^16
Wide(h, l) == [hi |-> h, lo |-> l]

\* ShrAnd without the mask
ShrNoMask(v, k) == v \div (2 ^ k)

\* (v >> k) & 0xFF
ShrAnd(v, k) == (v \div (2 ^ k)) % 256

\* (v >> k) & 0xFF for a wide v, k in {0, 8, 16, 24}
WShrAnd(v, k) ==
    IF k >= 16 THEN (v.hi \div (2 ^ (k - 16))) % 256
    ELSE ((v.lo \div (2 ^ k)) + (v.hi % 256) * (2 ^ (16 - k))) % 256

\* 0x01 if flag else 0x00
Flag(f) == IF f THEN 1 ELSE 0

\* the interpreters the module runs under
Runtimes == {"cpython", "micropython"}

RaiseVal == -1

\* Store with an added mask, which lets every value through
StoreMasked(v, rt) == v % 256

\* cmd[k] = v: a bytearray item takes 0..255; a larger value is a ValueError
\* under CPython and is cut to its low 8 bits under MicroPython
Store(v, rt) ==
    IF v \in 0..255 THEN v
    ELSE IF rt = "micropython" THEN v % 256 ELSE RaiseVal

\* the value of the call: the frame, or the exception of a failed store
Frame(fields) ==
    IF \E k \in 1..Len(fields) : fields[k] = RaiseVal
    THEN [raised |-> TRUE, bytes |-> <<>>]
    ELSE [raised |-> FALSE, bytes |-> fields]

\* cmd = bytearray(n) followed by the item assignments cmd[0], cmd[1], ...
Bytearray(n, fields) == [k \in 1..n |-> IF k <= Len(fields) THEN fields[k] ELSE 0]

\* cmd[:n]
Upto(b, n) == SubSeq(b, 1, IF n < Len(b) THEN n ELSE Len(b))

func_codes ==
    [S_VER |-> 31, S_RL |-> 32, S_PID |-> 33, S_VBUS |-> 36, S_CPHA |-> 39,
     S_ENCL |-> 49, S_TPOS |-> 51, S_VEL |-> 53, S_CPOS |-> 54, S_PERR |-> 55,
     S_FLAG |-> 58, S_ORG |-> 59, S_Conf |-> 66, S_State |-> 67]

Read_Sys_Params(addr, s, rt) ==
    IF s \in DOMAIN func_codes
    THEN Frame(Upto(Bytearray(16, <<Store(addr, rt), func_codes[s], Terminator>>), 3))
    ELSE Frame(Upto(Bytearray(16, <<Store(addr, rt), Terminator>>), 2))

Reset_CurPos_To_Zero(addr, rt) ==
    Frame(Bytearray(4, <<Store(addr, rt), 10, 109, Terminator>>))

Reset_Clog_Pro(addr, rt) ==
    Frame(Bytearray(4, <<Store(addr, rt), 14, 82, Terminator>>))

Modify_Ctrl_Mode(addr, svF, ctrl_mode, rt) ==
    Frame(Bytearray(6, <<Store(addr, rt), 70, 105, Flag(svF),
                         Store(ctrl_mode, rt), Terminator>>))

\* En_Control returning the whole 16-byte buffer
En_ControlUnsliced(addr, state, snF, rt) ==
    Frame(Bytearray(16, <<Store(addr, rt), 243, 171, Flag(state),
                          Flag(snF), Terminator>>))

En_Control(addr, state, snF, rt) ==
    Frame(Upto(Bytearray(16, <<Store(addr, rt), 243, 171, Flag(state),
                               Flag(snF), Terminator>>), 6))

Vel_Control(addr, dir, vel, acc, snF, rt) ==
    Frame(Upto(Bytearray(16, <<Store(addr, rt), 246, Store(dir, rt),
                               ShrAnd(vel, 8), ShrAnd(vel, 0), Store(acc, rt),
                               Flag(snF), Terminator>>), 8))

\* Pos_Control with the two flag bytes exchanged
Pos_ControlFlagsSwapped(addr, dir, vel, acc, clk, raF, snF, rt) ==
    Frame(Upto(Bytearray(16, <<Store(addr, rt), 253, Store(dir, rt),
                               ShrAnd(vel, 8), ShrAnd(vel, 0), Store(acc, rt),
                               WShrAnd(clk, 24), WShrAnd(clk, 16),
                               WShrAnd(clk, 8), WShrAnd(clk, 0),
                               Flag(snF), Flag(raF), Terminator>>), 13))

Pos_Control(addr, dir, vel, acc, clk, raF, snF, rt) ==
    Frame(Upto(Bytearray(16, <<Store(addr, rt), 253, Store(dir, rt),
                               ShrAnd(vel, 8), ShrAnd(vel, 0), Store(acc, rt),
                               WShrAnd(clk, 24), WShrAnd(clk, 16),
                               WShrAnd(clk, 8), WShrAnd(clk, 0),
                               Flag(raF), Flag(snF), Terminator>>), 13))

Stop_Now(addr, snF, rt) ==
    Frame(Bytearray(5, <<Store(addr, rt), 254, 152, Flag(snF), Terminator>>))

Synchronous_motion(addr, rt) ==
    Frame(Bytearray(4, <<Store(addr, rt), 255, 102, Terminator>>))

Origin_Set_O(addr, svF, rt) ==
    Frame(Bytearray(5, <<Store(addr, rt), 147, 136, Flag(svF), Terminator>>))

Origin_Modify_Params(addr, svF, o_mode, o_dir, o_vel, o_tm, sl_vel, sl_ma, sl_ms, potF, rt) ==
    Frame(Bytearray(20, <<Store(addr, rt), 76, 174, Flag(svF),
                          Store(o_mode, rt), Store(o_dir, rt),
                          ShrAnd(o_vel, 8), ShrAnd(o_vel, 0),
                          WShrAnd(o_tm, 24), WShrAnd(o_tm, 16),
                          WShrAnd(o_tm, 8), WShrAnd(o_tm, 0),
                          ShrAnd(sl_vel, 8), ShrAnd(sl_vel, 0),
                          ShrAnd(sl_ma, 8), ShrAnd(sl_ma, 0),
                          ShrAnd(sl_ms, 8), ShrAnd(sl_ms, 0),
                          Flag(potF), Terminator>>))

Origin_Trigger_Return(addr, o_mode, snF, rt) ==
    Frame(Bytearray(5, <<Store(addr, rt), 154, Store(o_mode, rt), Flag(snF),
                         Terminator>>))

Origin_Interrupt(addr, rt) ==
    Frame(Bytearray(4, <<Store(addr, rt), 156, 72, Terminator>>))

\* ------------------------------------------------------------------------
\* Calls of the command builders
\* ------------------------------------------------------------------------
Addrs == {0, 1, 255, 256}
Small == {0, 5, 10, 257}
Vels == {200, 300, 65535, 65836}
Clks == {Wide(0, 3200), Wide(32768, 0), Wide(65535, 65535), Wide(65536, 3200)}
ParamNames == (DOMAIN func_codes) \cup {"S_NONE"}

\* the calls that are made: the builder, its arguments and the interpreter
Calls ==
    [op : {"Read_Sys_Params"}, rt : Runtimes, addr : Addrs, s : ParamNames]
    \cup
    [op : {"Reset_CurPos_To_Zero"}, rt : Runtimes, addr : Addrs]
    \cup
    [op : {"Reset_Clog_Pro"}, rt : Runtimes, addr : Addrs]
    \cup
    [op : {"Modify_Ctrl_Mode"}, rt : Runtimes, addr : Addrs, svF : BOOLEAN,
     ctrl_mode : Small]
    \cup
    [op : {"En_Control"}, rt : Runtimes, addr : Addrs, state : BOOLEAN,
     snF : BOOLEAN]
    \cup
    [op : {"Vel_Control"}, rt : Runtimes, addr : Addrs, dir : Small,
     vel : Vels, acc : Small, snF : BOOLEAN]
    \cup
    [op : {"Pos_Control"}, rt : Runtimes, addr : Addrs, dir : Small,
     vel : Vels, acc : Small, clk : Clks, raF : BOOLEAN, snF : BOOLEAN]
    \cup
    [op : {"Stop_Now"}, rt : Runtimes, addr : Addrs, snF : BOOLEAN]
    \cup
    [op : {"Synchronous_motion"}, rt : Runtimes, addr : Addrs]
    \cup
    [op : {"Origin_Set_O"}, rt : Runtimes, addr : Addrs, svF : BOOLEAN]
    \cup
    [op : {"Origin_Modify_Params"}, rt : Runtimes, addr : {1, 256},
     svF : BOOLEAN, o_mode : {0, 2}, o_dir : {1, 257}, o_vel : {30, 65566},
     o_tm : {Wide(0, 10000), Wide(65537, 10000)}, sl_vel : {300, 65836},
     sl_ma : {800, 66336}, sl_ms : {60, 65596}, potF : BOOLEAN]
    \cup
    [op : {"Origin_Trigger_Return"}, rt : Runtimes, addr : Addrs,
     o_mode : Small, snF : BOOLEAN]
    \cup
    [op : {"Origin_Interrupt"}, rt : Runtimes, addr : Addrs]

EncInit == RxInitWith({<<>>}) /\ call \in Calls /\ cmd = NoCmd

CallRead_Sys_Params ==
    /\ call.op = "Read_Sys_Params"
    /\ cmd = NoCmd
    /\ cmd' = Read_Sys_Params(call.addr, call.s, call.rt)
    /\ UNCHANGED <<call, pc, now, line, uart, rxCmd, lTime, cTime, data, count,
                   pos, Motor_Cur_Pos, err>>

CallReset_CurPos_To_Zero ==
    /\ call.op = "Reset_CurPos_To_Zero"
    /\ cmd = NoCmd
    /\ cmd' = Reset_CurPos_To_Zero(call.addr, call.rt)
    /\ UNCHANGED <<call, pc, now, line, uart, rxCmd, lTime, cTime, data, count,
                   pos, Motor_Cur_Pos, err>>

CallReset_Clog_Pro ==
    /\ call.op = "Reset_Clog_Pro"
    /\ cmd = NoCmd
    /\ cmd' = Reset_Clog_Pro(call.addr, call.rt)
    /\ UNCHANGED <<call, pc, now, line, uart, rxCmd, lTime, cTime, data, count,
                   pos, Motor_Cur_Pos, err>>

CallModify_Ctrl_Mode ==
    /\ call.op = "Modify_Ctrl_Mode"
    /\ cmd = NoCmd
    /\ cmd' = Modify_Ctrl_Mode(call.addr, call.svF, call.ctrl_mode, call.rt)
    /\ UNCHANGED <<call, pc, now, line, uart, rxCmd, lTime, cTime, data, count,
                   pos, Motor_Cur_Pos, err>>

CallEn_Control ==
    /\ call.op = "En_Control"
    /\ cmd = NoCmd
    /\ cmd' = En_Control(call.addr, call.state, call.snF, call.rt)
    /\ UNCHANGED <<call, pc, now, line, uart, rxCmd, lTime, cTime, data, count,
                   pos, Motor_Cur_Pos, err>>

CallVel_Control ==
    /\ call.op = "Vel_Control"
    /\ cmd = NoCmd
    /\ cmd' = Vel_Control(call.addr, call.dir, call.vel, call.acc, call.snF,
                           call.rt)
    /\ UNCHANGED <<call, pc, now, line, uart, rxCmd, lTime, cTime, data, count,
                   pos, Motor_Cur_Pos, err>>

CallPos_Control ==
    /\ call.op = "Pos_Control"
    /\ cmd = NoCmd
    /\ cmd' = Pos_Control(call.addr, call.dir, call.vel, call.acc, call.clk,
                           call.raF, call.snF, call.rt)
    /\ UNCHANGED <<call, pc, now, line, uart, rxCmd, lTime, cTime, data, count,
                   pos, Motor_Cur_Pos, err>>

CallStop_Now ==
    /\ call.op = "Stop_Now"
    /\ cmd = NoCmd
    /\ cmd' = Stop_Now(call.addr, call.snF, call.rt)
    /\ UNCHANGED <<call, pc, now, line, uart, rxCmd, lTime, cTime, data, count,
                   pos, Motor_Cur_Pos, err>>

CallSynchronous_motion ==
    /\ call.op = "Synchronous_motion"
    /\ cmd = NoCmd
    /\ cmd' = Synchronous_motion(call.addr, call.rt)
    /\ UNCHANGED <<call, pc, now, line, uart, rxCmd, lTime, cTime, data, count,
                   pos, Motor_Cur_Pos, err>>

CallOrigin_Set_O ==
    /\ call.op = "Origin_Set_O"
    /\ cmd = NoCmd
    /\ cmd' = Origin_Set_O(call.addr, call.svF, call.rt)
    /\ UNCHANGED <<call, pc, now, line, uart, rxCmd, lTime, cTime, data, count,
                   pos, Motor_Cur_Pos, err>>

CallOrigin_Modify_Params ==
    /\ call.op = "Origin_Modify_Params"
    /\ cmd = NoCmd
    /\ cmd' = Origin_Modify_Params(call.addr, call.svF, call.o_mode, call.o_dir, call.o_vel,
                                    call.o_tm, call.sl_vel, call.sl_ma, call.sl_ms, call.potF, call.rt)
    /\ UNCHANGED <<call, pc, now, line, uart, rxCmd, lTime, cTime, data, count,
                   pos, Motor_Cur_Pos, err>>

CallOrigin_Trigger_Return ==
    /\ call.op = "Origin_Trigger_Return"
    /\ cmd = NoCmd
    /\ cmd' = Origin_Trigger_Return(call.addr, call.o_mode, call.snF, call.rt)
    /\ UNCHANGED <<call, pc, now, line, uart, rxCmd, lTime, cTime, data, count,
                   pos, Motor_Cur_Pos, err>>

CallOrigin_Interrupt ==
    /\ call.op = "Origin_Interrupt"
    /\ cmd = NoCmd
    /\ cmd' = Origin_Interrupt(call.addr, call.rt)
    /\ UNCHANGED <<call, pc, now, line, uart, rxCmd, lTime, cTime, data, count,
                   pos, Motor_Cur_Pos, err>>

EncNext ==
    \/ CallRead_Sys_Params
    \/ CallReset_CurPos_To_Zero
    \/ CallReset_Clog_Pro
    \/ CallModify_Ctrl_Mode
    \/ CallEn_Control
    \/ CallVel_Control
    \/ CallPos_Control
    \/ CallStop_Now
    \/ CallSynchronous_motion
    \/ CallOrigin_Set_O
    \/ CallOrigin_Modify_Params
    \/ CallOrigin_Trigger_Return
    \/ CallOrigin_Interrupt

EncSpec == EncInit /\ [][EncNext]_vars

\* ------------------------------------------------------------------------
\* Fair scheduling: the polling loop keeps running and the clock keeps ticking
\* ------------------------------------------------------------------------
\* the streams fed under fair scheduling: the idle line and the short ones
FairInit == RxInitWith(ShortStreams) /\ call = NoCall /\ cmd = NoCmd

FairSpec ==
    /\ FairInit
    /\ [][Next]_vars
    /\ WF_vars(Begin) /\ WF_vars(RxIter) /\ WF_vars(Tick) /\ WF_vars(Decode)

\* ------------------------------------------------------------------------
\* Vocabulary of the properties
\* ------------------------------------------------------------------------
Returned == cmd # NoCmd

RxReturned == pc \in {"decode", "done", "raised"}

\* the arguments a builder stores into a single byte
OneByteArgs(c) ==
    CASE c.op = "Modify_Ctrl_Mode" -> {c.addr, c.ctrl_mode}
      [] c.op \in {"Vel_Control", "Pos_Control"} -> {c.addr, c.dir, c.acc}
      [] c.op = "Origin_Modify_Params" -> {c.addr, c.o_mode, c.o_dir}
      [] c.op = "Origin_Trigger_Return" -> {c.addr, c.o_mode}
      [] OTHER -> {c.addr}

ValidCall(c) ==
    /\ OneByteArgs(c) \subseteq 0..255
    /\ c.op = "Read_Sys_Params" => c.s \in DOMAIN func_codes

FrameLen(op) ==
    CASE op = "Read_Sys_Params" -> 3
      [] op \in {"Reset_CurPos_To_Zero", "Reset_Clog_Pro", "Synchronous_motion",
                 "Origin_Interrupt"} -> 4
      [] op \in {"Stop_Now", "Origin_Set_O", "Origin_Trigger_Return"} -> 5
      [] op \in {"Modify_Ctrl_Mode", "En_Control"} -> 6
      [] op = "Vel_Control" -> 8
      [] op = "Pos_Control" -> 13
      [] op = "Origin_Modify_Params" -> 20

\* <<position, argument>> of the numeric fields of a frame, by width
Fields1(c) ==
    {<<1, c.addr>>} \cup
    CASE c.op = "Modify_Ctrl_Mode" -> {<<5, c.ctrl_mode>>}
      [] c.op \in {"Vel_Control", "Pos_Control"} -> {<<3, c.dir>>, <<6, c.acc>>}
      [] c.op = "Origin_Modify_Params" -> {<<5, c.o_mode>>, <<6, c.o_dir>>}
      [] c.op = "Origin_Trigger_Return" -> {<<3, c.o_mode>>}
      [] OTHER -> {}

Fields2(c) ==
    CASE c.op \in {"Vel_Control", "Pos_Control"} -> {<<4, c.vel>>}
      [] c.op = "Origin_Modify_Params" ->
            {<<7, c.o_vel>>, <<13, c.sl_vel>>, <<15, c.sl_ma>>, <<17, c.sl_ms>>}
      [] OTHER -> {}

Fields4(c) ==
    CASE c.op = "Pos_Control" -> {<<7, c.clk>>}
      [] c.op = "Origin_Modify_Params" -> {<<9, c.o_tm>>}
      [] OTHER -> {}

Holds1(b, f) == b[f[1]] = f[2] % 256

Holds2(b, f) == b[f[1]] * 256 + b[f[1] + 1] = f[2] % 65536

Holds4(b, f) ==
    Wide(b[f[1]] * 256 + b[f[1] + 1], b[f[1] + 2] * 256 + b[f[1] + 3])
        = Wide(f[2].hi % 65536, f[2].lo)

\* bits lo+7..lo of v, read bit by bit
Bits8(v, lo) ==
    LET bit(j) == (v \div (2 ^ (lo + j))) % 2
    IN  bit(0) + 2 * bit(1) + 4 * bit(2) + 8 * bit(3) + 16 * bit(4)
        + 32 * bit(5) + 64 * bit(6) + 128 * bit(7)

WBits8(v, lo) == IF lo >= 16 THEN Bits8(v.hi, lo - 16) ELSE Bits8(v.lo, lo)

\* ------------------------------------------------------------------------
\* Properties
\* ------------------------------------------------------------------------

\* C1: Receive_Data returns exactly the bytes it received before the silent
\* gap, in arrival order, with their number as the byte count.
C1_FrameReturnedExactly ==
    RxReturned => (data = JoinHex(rxCmd) /\ count = Len(rxCmd))

\* C2: whenever a byte is available, an iteration of Receive_Data consumes
\* one byte and resets the last-activity timestamp, also with a full buffer.
C2_AvailableByteConsumed ==
    (pc = "rx" /\ uart # <<>>) =>
        ENABLED (RxIter /\ uart' = Tail(uart) /\ lTime' = now)

\* C3: a received 7-byte reply 0x01 0x36 sign m3 m2 m1 m0 decodes to
\* M * 360 / 65536, negated exactly when the sign byte is nonzero.
C3_PositionDecoded ==
    (pc \in {"done", "raised"} /\ Len(rxCmd) = 7 /\ rxCmd[1] = 1 /\ rxCmd[2] = 54)
    => /\ pc = "done"
       /\ Motor_Cur_Pos =
            (IF rxCmd[3] # 0 THEN -1 ELSE 1)
            * (((rxCmd[4] * 256 + rxCmd[5]) * 256 + rxCmd[6]) * 256 + rxCmd[7])
            * 360

\* C4: a received frame shorter than 7 bytes, or not starting 0x01 0x36,
\* yields no reading: the angle stays 0.0 and nothing is raised.
C4_NoReadingOnBadFrame ==
    (pc \in {"done", "raised"}
       /\ (Len(rxCmd) < 7 \/ rxCmd[1] # 1 \/ rxCmd[2] # 54))
    => (pc = "done" /\ Motor_Cur_Pos = 0 /\ err = "none")

C6_NeverRaisesAndTruncates ==
    Returned =>
        /\ ~cmd.raised
        /\ \A f \in Fields1(call) : Holds1(cmd.bytes, f)
        /\ \A f \in Fields2(call) : Holds2(cmd.bytes, f)
        /\ \A f \in Fields4(call) : Holds4(cmd.bytes, f)

\* C6 amended: a builder raises exactly when a one-byte argument exceeds 255
\* under an interpreter that range-checks bytearray items; otherwise it
\* returns a frame whose one-byte fields hold the low 8 bits, two-byte fields
\* the low 16 bits and four-byte fields the low 32 bits of the argument.
C6_RaisesOnlyOnWideOneByteArg ==
    Returned =>
        /\ cmd.raised <=>
              (call.rt = "cpython" /\ \E v \in OneByteArgs(call) : v > 255)
        /\ ~cmd.raised =>
              /\ \A f \in Fields1(call) : Holds1(cmd.bytes, f)
              /\ \A f \in Fields2(call) : Holds2(cmd.bytes, f)
              /\ \A f \in Fields4(call) : Holds4(cmd.bytes, f)

C6_Witness ==
    /\ Returned /\ ~cmd.raised
    /\ call.op = "Vel_Control" /\ call.rt = "cpython"
    /\ call.vel = 65836 /\ call.acc = 10
    /\ cmd.bytes[4] = 1 /\ cmd.bytes[5] = 44

\* C7: Pos_Control returns addr, 0xFD, dir, vel 15..8, vel 7..0, acc, the four
\* bytes of clk from bits 31..24 down to 7..0, the two flags as 0x01/0x00 and
\* 0x6B; Pos_Control(1, 0, 300, 5, 3200, true, false) is the frame of the spec.
C7_PosControlLayout ==
    (Returned /\ call.op = "Pos_Control"
       /\ {call.addr, call.dir, call.acc} \subseteq 0..255)
    => /\ ~cmd.raised
       /\ cmd.bytes =
            <<call.addr, 253, call.dir, Bits8(call.vel, 8), Bits8(call.vel, 0),
              call.acc, WBits8(call.clk, 24), WBits8(call.clk, 16),
              WBits8(call.clk, 8), WBits8(call.clk, 0),
              IF call.raF THEN 1 ELSE 0, IF call.snF THEN 1 ELSE 0, 107>>
       /\ (/\ call.addr = 1 /\ call.dir = 0 /\ call.vel = 300 /\ call.acc = 5
           /\ call.clk = Wide(0, 3200) /\ call.raF /\ ~call.snF)
          => cmd.bytes = <<1, 253, 0, 1, 44, 5, 0, 0, 12, 128, 1, 0, 107>>

C7_Witness ==
    /\ call.op = "Pos_Control"
    /\ call.addr = 1 /\ call.dir = 0 /\ call.vel = 300 /\ call.acc = 5
    /\ call.clk = Wide(0, 3200) /\ call.raF /\ ~call.snF
    /\ ~cmd.raised
    /\ cmd.bytes = <<1, 253, 0, 1, 44, 5, 0, 0, 12, 128, 1, 0, 107>>

\* C8: the bytes of every two-byte and four-byte field of Vel_Control,
\* Pos_Control and Origin_Modify_Params, reassembled big-endian, give the
\* argument modulo 2^16 and modulo 2^32.
C8_MultiByteRoundTrip ==
    (Returned /\ ~cmd.raised
       /\ call.op \in {"Vel_Control", "Pos_Control", "Origin_Modify_Params"})
    => /\ \A f \in Fields2(call) : Holds2(cmd.bytes, f)
       /\ \A f \in Fields4(call) : Holds4(cmd.bytes, f)

C8_Witness ==
    /\ Returned /\ ~cmd.raised
    /\ call.op = "Origin_Modify_Params"
    /\ call.o_tm = Wide(65537, 10000) /\ call.sl_ma = 66336
    /\ SubSeq(cmd.bytes, 9, 12) = <<0, 1, 39, 16>>
    /\ SubSeq(cmd.bytes, 15, 16) = <<3, 32>>

\* C9: on a line that stays idle Receive_Data terminates, returning the empty
\* frame with byte count 0 once more than 100 ms have passed since the call.
C9_IdleLineReturnsEmpty ==
    (pc = "rx" /\ line = <<>> /\ uart = <<>> /\ rxCmd = <<>>)
        ~> (pc = "decode" /\ data = <<>> /\ count = 0 /\ now - lTime > 100)

C9_Witness ==
    /\ pc = "decode" /\ rxCmd = <<>> /\ line = <<>> /\ uart = <<>>
    /\ data = <<>> /\ count = 0
    /\ lTime = 0 /\ now > 100

\* C10: Receive_Data returns only when no byte is available and more than
\* 100 ms have passed since the last-activity timestamp.
C10_ReturnsOnlyAfterSilence ==
    [][(pc = "rx" /\ pc' # "rx") => (uart = <<>> /\ now - lTime > 100)]_vars

C10_Witness ==
    /\ pc = "decode" /\ Len(rxCmd) = 7 /\ uart = <<>>
    /\ lTime > 0 /\ cTime - lTime > 100

====
